---------------------------- MODULE Spec2Model ----------------------------
(***************************************************************************)
(* A model of src/generate.py, the Pixel Cat collection generator.         *)
(*                                                                         *)
(* One run of generate_collection is a sequential process whose position   *)
(* is pc.  The configuration (layers_order, the assets folders on disk,    *)
(* num, start_id, seed, palette, max_attempts_per_item) is chosen in Init  *)
(* and never changes.  A finished run may be followed by a second run of   *)
(* the same configuration, so that two runs can be compared.               *)
(*                                                                         *)
(* random.Random(k) is a deterministic generator: the stream it yields is  *)
(* a function of k alone.  The variable mt holds that function, filled in  *)
(* on first use: mt[k] is the entropy of the generator seeded with k, and  *)
(* successive draws consume it in mixed radix (Draw).  Which function it   *)
(* is, is left open; that it is one function is what the code relies on.   *)
(*                                                                         *)
(* Strings that the code computes are sequences of one-character (or       *)
(* fixed-piece) strings: a file name is <<stem, suffix>>, a colour is      *)
(* <<"#", d1, ..., d6>>.  An image is described by what was composited     *)
(* into it, not by its pixels.  SHA-256 is taken to be collision free.     *)
(***************************************************************************)
EXTENDS Integers, Sequences, FiniteSets, TLC

\* ------------------------------------------------------------- bounds
MaxFiles == 2        \* image files per assets folder, at most
MaxLayers == 3       \* length of layers_order, where the layers vary
MaxNum == 3          \* num
MaxStart == 2        \* start_id
MaxSeed == 1         \* seed
MaxAttempts == 2     \* max_attempts_per_item
MaxPalette == 2      \* palette entries
MaxRaw == 3          \* distinct entropies of one generator

\* ------------------------------------------------------------- program constants
DefaultMaxAttempts == 200    \* max_attempts_per_item when the caller gives none

\* ------------------------------------------------------------- sequences
Range(s) == {s[j] : j \in 1..Len(s)}

Min(a, b) == IF a < b THEN a ELSE b

Max(a, b) == IF a > b THEN a ELSE b

RECURSIVE SeqsUpTo(_, _)
SeqsUpTo(S, n) ==
    IF n = 0 THEN {<<>>}
    ELSE LET shorter == SeqsUpTo(S, n - 1)
         IN  shorter \cup {Append(s, x) : s \in {t \in shorter : Len(t) = n - 1}, x \in S}

\* every order in which the elements of a finite set can be enumerated
RECURSIVE Orderings(_)
Orderings(S) ==
    IF S = {} THEN {<<>>}
    ELSE UNION {{<<x>> \o t : t \in Orderings(S \ {x})} : x \in S}

\* insert x into the rank-sorted sequence s, after its equals (stable)
RECURSIVE InsertByRank(_, _, _)
InsertByRank(s, x, rank) ==
    IF s = <<>> THEN <<x>>
    ELSE IF rank[x] < rank[Head(s)] THEN <<x>> \o s
    ELSE <<Head(s)>> \o InsertByRank(Tail(s), x, rank)

RECURSIVE SortByRank(_, _)
SortByRank(s, rank) ==
    IF s = <<>> THEN <<>>
    ELSE InsertByRank(SortByRank(SubSeq(s, 1, Len(s) - 1), rank), s[Len(s)], rank)

\* a ^ b on non-negative integers
RECURSIVE Xor(_, _)
Xor(a, b) ==
    IF a = 0 THEN b
    ELSE IF b = 0 THEN a
    ELSE (((a % 2) + (b % 2)) % 2) + 2 * Xor(a \div 2, b \div 2)

\* ------------------------------------------------------------- names
LayerNames == {"backgrounds", "base", "cat", "eyes", "color"}

\* the keys a Selection can have, in the order json.dumps(sort_keys=True) puts them
SortedKeys == <<"backgrounds", "base", "cat", "color", "eyes", "mask">>

KeyRank(k) == CHOOSE j \in 1..Len(SortedKeys) : SortedKeys[j] = k

\* directory entries, in the order sorted() puts their paths
SortedEntries ==
    <<(<<"a", ".png">>), (<<"b", ".WEBP">>), (<<"c", ".png">>), (<<"d", ".webp">>),
      (<<"notes", ".txt">>)>>

EntryRank(e) == CHOOSE j \in 1..Len(SortedEntries) : SortedEntries[j] = e

NotesEntry == SortedEntries[Len(SortedEntries)]

\* a folder holding k image files (and, when it holds any, a file that is no image)
Entries(k) == IF k = 0 THEN {} ELSE {SortedEntries[j] : j \in 1..k} \cup {NotesEntry}

NoDir == [is_dir |-> FALSE, entries |-> {}]

Folder(k) == [is_dir |-> TRUE, entries |-> Entries(k)]

Folders == {NoDir} \cup {Folder(k) : k \in 0..MaxFiles}

HexDigits == <<"0", "1", "2", "3", "4", "5", "6", "7", "8", "9", "a", "b", "c", "d", "e", "f">>

HexValue(d) == (CHOOSE j \in 1..16 : HexDigits[j] = d) - 1

PaletteColors ==
    <<(<<"#", "f", "f", "0", "0", "0", "0">>), (<<"#", "0", "0", "8", "0", "f", "f">>),
      (<<"#", "1", "2", "3", "4", "5", "6">>)>>

\* an optional integer is <<>> (None) or <<n>>
None == <<>>

Some(n) == <<n>>

\* ------------------------------------------------------------- utilities
\* str.lower() of a file suffix
Lower(suffix) ==
    CASE suffix = ".WEBP" -> ".webp"
      [] suffix = ".PNG" -> ".png"
      [] OTHER -> suffix

\* a listing that keeps the order of the directory enumeration
list_images_unsorted(folder, iterdir) ==
    IF ~folder.is_dir THEN <<>>
    ELSE SelectSeq(iterdir, LAMBDA f : Lower(f[2]) \in {".png", ".webp"})

\* list_images(folder): iterdir is what the directory enumeration returned, in
\* the order the file system chose
list_images(folder, iterdir) ==
    IF ~folder.is_dir THEN <<>>
    ELSE SelectSeq(SortByRank(iterdir, [e \in Range(iterdir) |-> EntryRank(e)]),
                   LAMBDA f : Lower(f[2]) \in {".png", ".webp"})

\* "{:02x}" of one byte
Hex2(b) == <<HexDigits[(b \div 16) + 1], HexDigits[(b % 16) + 1]>>

hex_from_rgb(rgb) == <<"#">> \o Hex2(rgb[1]) \o Hex2(rgb[2]) \o Hex2(rgb[3])

rgb_from_hex(hexstr) ==
    LET hs == IF hexstr # <<>> /\ Head(hexstr) = "#" THEN Tail(hexstr) ELSE hexstr
    IN  <<16 * HexValue(hs[1]) + HexValue(hs[2]),
          16 * HexValue(hs[3]) + HexValue(hs[4]),
          16 * HexValue(hs[5]) + HexValue(hs[6])>>

\* dict[k] = v on an insertion-ordered dict kept as a sequence of <<key, value>>
DictSet(d, k, v) ==
    IF \E j \in 1..Len(d) : d[j][1] = k
    THEN [j \in 1..Len(d) |-> IF d[j][1] = k THEN <<k, v>> ELSE d[j]]
    ELSE Append(d, <<k, v>>)

DictKeys(d) == {d[j][1] : j \in 1..Len(d)}

DictGet(d, k) == d[CHOOSE j \in 1..Len(d) : d[j][1] = k][2]

\* assets_map.get(layer, [])
AssetsGet(assets, layer) == IF layer \in DOMAIN assets THEN assets[layer] ELSE <<>>

\* gather_assets: listing[f] is the enumeration of folder f
gather_assets(folders, order, listing) ==
    [f \in Range(order) \cup {"masks"} |-> list_images(folders[f], listing[f])]

\* the names found in the folders fs
Listed(fs, folders) == UNION {folders[f].entries : f \in fs}

\* what enumerating each of the folders fs returns when the file system lists
\* entries in the order fsorder of their names
Listing(fs, folders, fsorder) ==
    [f \in fs |-> SelectSeq(fsorder, LAMBDA e : e \in folders[f].entries)]

RECURSIVE Product(_)
Product(counts) == IF counts = <<>> THEN 1 ELSE Head(counts) * Product(Tail(counts))

compute_max_combinations(assets, order) ==
    Product([j \in 1..Len(order) |-> Max(1, Len(AssetsGet(assets, order[j])))])

\* ------------------------------------------------------------- random source
\* one draw below n from a generator whose remaining entropy is r
DrawValue(r, n) == r % n

DrawRest(r, n) == r \div n

\* rng.choice(choices)
Choice(r, choices) == choices[DrawValue(r, Len(choices)) + 1]

\* the number of outcomes of the draws of one attempt: one choice per layer that
\* has assets, one among the masks if there are any, one colour
Outcomes(order, assets, pal) ==
    Product([j \in 1..Len(order) |-> Max(1, Len(AssetsGet(assets, order[j])))])
    * Max(1, Len(AssetsGet(assets, "masks")))
    * (IF pal # <<>> THEN Len(pal) ELSE 256 * 256 * 256)

\* the entropies that give different draws, MaxRaw of them at most
Entropies(order, assets, pal) == 0..(Min(MaxRaw, Outcomes(order, assets, pal)) - 1)

\* the key of the per-attempt generator: (seed or 0) ^ i ^ attempts
SeedOrZero(s) == IF s = None THEN 0 ELSE s[1]

AttemptKey(s, edition, attempt) == Xor(Xor(SeedOrZero(s), edition), attempt)

\* ------------------------------------------------------------- one attempt
\* the loop over layers_order that chooses one asset per layer; the result is
\* the Selection, the opened images and the entropy left in the generator
RECURSIVE SelectLayers(_, _, _, _, _)
SelectLayers(order, assets, r, sel, imgs) ==
    IF order = <<>> THEN [selected |-> sel, images |-> imgs, rest |-> r]
    ELSE LET layer == Head(order)
             choices == AssetsGet(assets, layer)
         IN  IF choices = <<>>
             THEN SelectLayers(Tail(order), assets, r, sel, imgs)
             ELSE SelectLayers(Tail(order), assets, DrawRest(r, Len(choices)),
                               DictSet(sel, layer, Choice(r, choices)),
                               (layer :> Choice(r, choices)) @@ imgs)

\* image_to_mask(img): the thresholded alpha (or grey) channel of img
image_to_mask(img) == <<"image_to_mask">> \o img

\* the mask of the attempt, and the Selection and entropy after choosing it
SelectMask(assets, layered) ==
    IF AssetsGet(assets, "masks") # <<>>
    THEN LET masks == assets["masks"]
         IN  [selected |-> DictSet(layered.selected, "mask", Choice(layered.rest, masks)),
              mask |-> <<"masks">> \o Choice(layered.rest, masks),
              rest |-> DrawRest(layered.rest, Len(masks))]
    ELSE [selected |-> layered.selected,
          mask |-> IF "base" \in DOMAIN layered.images
                   THEN image_to_mask(layered.images["base"])
                   ELSE <<"blank">>,
          rest |-> layered.rest]

\* the colour of the attempt: <<color_hex, color_rgb>>
SelectColor(pal, r) ==
    IF pal # <<>>
    THEN <<Choice(r, pal), rgb_from_hex(Choice(r, pal))>>
    ELSE LET r1 == DrawRest(r, 256)
             r2 == DrawRest(r1, 256)
             rgb == <<DrawValue(r, 256), DrawValue(r1, 256), DrawValue(r2, 256)>>
         IN  <<hex_from_rgb(rgb), rgb>>

Pixels(layer, img, rgb) == [layer |-> layer, img |-> img, rgb |-> rgb]

\* an overlay pass that composites every layer but backgrounds, base and cat,
\* wherever it stands relative to cat
RECURSIVE OverlaysAnywhere(_, _, _)
OverlaysAnywhere(order, imgs, after_cat) ==
    IF order = <<>> THEN <<>>
    ELSE LET layer == Head(order)
         IN  IF layer \in {"cat", "backgrounds", "base"} \/ layer \notin DOMAIN imgs
             THEN OverlaysAnywhere(Tail(order), imgs, after_cat)
             ELSE <<Pixels(layer, imgs[layer], <<>>)>>
                  \o OverlaysAnywhere(Tail(order), imgs, after_cat)

\* the overlay pass over layers_order
RECURSIVE Overlays(_, _, _)
Overlays(order, imgs, after_cat) ==
    IF order = <<>> THEN <<>>
    ELSE LET layer == Head(order)
         IN  IF layer = "cat" THEN Overlays(Tail(order), imgs, TRUE)
             ELSE IF ~after_cat THEN Overlays(Tail(order), imgs, after_cat)
             ELSE IF layer \in {"backgrounds", "base"} THEN Overlays(Tail(order), imgs, after_cat)
             ELSE IF layer \in DOMAIN imgs
                  THEN <<Pixels(layer, imgs[layer], <<>>)>> \o Overlays(Tail(order), imgs, after_cat)
                  ELSE Overlays(Tail(order), imgs, after_cat)

\* the canvas, as the sequence of what was composited, bottom first
Compose(order, imgs, mask, rgb) ==
    (IF "backgrounds" \in DOMAIN imgs
     THEN <<Pixels("backgrounds", imgs["backgrounds"], <<>>)>>
     ELSE <<Pixels("transparent", <<>>, <<>>)>>)
    \o <<Pixels("color_layer", mask, rgb)>>
    \o (IF "cat" \in DOMAIN imgs THEN <<Pixels("cat", imgs["cat"], <<>>)>> ELSE <<>>)
    \o Overlays(order, imgs, FALSE)

\* json.dumps({"selected": selected}, sort_keys=True)
combo_str(sel) == SortByRank(sel, [p \in Range(sel) |-> KeyRank(p[1])])

sha256(str) == <<"sha256", str>>

\* everything one attempt computes from the entropy r of its generator
Attempt(order, assets, pal, r) ==
    LET layered == SelectLayers(order, assets, r, <<>>, <<>>)
        masked == SelectMask(assets, layered)
        color == SelectColor(pal, masked.rest)
        sel == DictSet(masked.selected, "color", color[1])
    IN  [selected |-> sel,
         images |-> layered.images,
         canvas |-> Compose(order, layered.images, masked.mask, color[2]),
         combo_hash |-> sha256(combo_str(sel))]

\* ------------------------------------------------------------- output
RECURSIVE Decimal(_)
Decimal(n) == IF n < 10 THEN <<HexDigits[n + 1]>> ELSE Append(Decimal(n \div 10), HexDigits[(n % 10) + 1])

RECURSIVE ZeroPad(_, _)
ZeroPad(digits, width) == IF Len(digits) >= width THEN digits ELSE ZeroPad(<<"0">> \o digits, width)

\* a file name that is not padded
FileNameUnpadded(edition, suffix) == <<"nft_">> \o Decimal(edition) \o <<suffix>>

\* f"nft_{i:06d}" + suffix
FileName(edition, suffix) == <<"nft_">> \o ZeroPad(Decimal(edition), 6) \o <<suffix>>

Attributes(sel) == [j \in 1..Len(sel) |-> [trait_type |-> sel[j][1], value |-> sel[j][2]]]

Metadata(edition, sel, hash, now) ==
    [name |-> <<"Pixel Cat #">> \o Decimal(edition),
     description |-> "Programmatically generated Pixel Cat",
     image |-> FileName(edition, ".png"),
     edition |-> edition,
     attributes |-> Attributes(sel),
     hash |-> hash,
     generated_at |-> now]

\* ------------------------------------------------------------- state
VARIABLES
    layers_order,           \* configuration: the layer names, in order
    disk,                   \* the folders under assets_root
    num, start_id, seed, palette, max_attempts_per_item,
    pc,                     \* position of the run in generate_collection
    run,                    \* 1 in the first run, 2 in the repeated one
    assets_map, max_possible,
    warned,                 \* the WARNING line was printed
    seen_hashes, metadata_list, generated, i,
    attempts, made,
    selected, images, canvas, combo_hash,   \* locals of the last attempt
    stopped,                \* the "Could not produce unique item" line was printed
    files,                  \* files this run wrote in out_dir: name -> content
    index,                  \* what this run wrote to metadata_index.json, write by write
    clock,                  \* datetime.now
    mt,                     \* entropy of random.Random(k), for the keys k used so far
    trace,                  \* the attempts of this run, in order
    prev                    \* trace and metadata_list of the first run, once it is over

config == <<layers_order, disk, num, start_id, seed, palette, max_attempts_per_item>>

vars == <<layers_order, disk, num, start_id, seed, palette, max_attempts_per_item,
          pc, run, assets_map, max_possible, warned, seen_hashes, metadata_list,
          generated, i, attempts, made, selected, images, canvas, combo_hash, stopped,
          files, index, clock, mt, trace, prev>>

FolderNames == LayerNames \cup {"masks"}

Palettes == {SubSeq(PaletteColors, 1, k) : k \in 0..MaxPalette}

Seeds == {None} \cup {Some(n) : n \in 0..MaxSeed}

\* the state of a run before its first statement
Fresh ==
    /\ pc = "start"
    /\ assets_map = <<>>
    /\ max_possible = 0
    /\ warned = FALSE
    /\ seen_hashes = {}
    /\ metadata_list = <<>>
    /\ generated = 0
    /\ i = 0
    /\ attempts = 0
    /\ made = FALSE
    /\ selected = <<>>
    /\ images = <<>>
    /\ canvas = <<>>
    /\ combo_hash = <<>>
    /\ stopped = FALSE
    /\ files = <<>>
    /\ index = <<>>
    /\ trace = <<>>

\* Init draws the inputs from four families, each varying some of them.
\* The bound and the start offset: one layer with any folder, masks or none, any
\* palette, num and start_id; one attempt per item
InitOffset ==
    /\ layers_order = <<"base">>
    /\ disk \in [FolderNames -> Folders]
    /\ \A f \in FolderNames \ {"base", "masks"} : disk[f] = NoDir
    /\ disk["masks"] \in {NoDir, Folder(MaxFiles)}
    /\ num \in 1..MaxNum
    /\ start_id \in 1..MaxStart
    /\ seed = None
    /\ palette \in Palettes
    /\ max_attempts_per_item = 1

\* The retries: one layer with assets, one colour, any num, start_id, seed and
\* attempt cap
InitRetry ==
    /\ layers_order = <<"base">>
    /\ disk \in [FolderNames -> {NoDir} \cup {Folder(k) : k \in 1..MaxFiles}]
    /\ \A f \in FolderNames : disk[f] = NoDir <=> f # "base"
    /\ num \in 1..MaxNum
    /\ start_id \in 1..MaxStart
    /\ seed \in Seeds
    /\ palette = SubSeq(PaletteColors, 1, 1)
    /\ max_attempts_per_item \in 1..MaxAttempts

\* A bound that is a product: two layers (or one layer twice) with assets
InitProduct ==
    /\ layers_order \in {<<"base", layer>> : layer \in {"base", "eyes"}}
    /\ disk \in [FolderNames -> {NoDir} \cup {Folder(k) : k \in 1..MaxFiles}]
    /\ \A f \in FolderNames : disk[f] = NoDir <=> f \notin Range(layers_order)
    /\ num = 2
    /\ start_id = 1
    /\ seed = None
    /\ palette = SubSeq(PaletteColors, 1, 1)
    /\ max_attempts_per_item = 1

\* The configured layers and their order, the rest as main() passes it when the
\* command line asks for one item
InitLayers ==
    /\ layers_order \in SeqsUpTo(LayerNames, MaxLayers)
    /\ disk \in [FolderNames -> {NoDir, Folder(1)}]
    /\ \A f \in FolderNames \ Range(layers_order) : disk[f] = NoDir
    /\ num = 1
    /\ start_id = 1
    /\ seed = None
    /\ palette = SubSeq(PaletteColors, 1, 1)
    /\ max_attempts_per_item = DefaultMaxAttempts

Init ==
    /\ InitOffset \/ InitRetry \/ InitProduct \/ InitLayers
    /\ Fresh
    /\ run = 1
    /\ clock = 0
    /\ mt = <<>>
    /\ prev = [trace |-> <<>>, metadata_list |-> <<>>]

\* ------------------------------------------------------------- the run
\* a warning that subtracts the start offset instead of adding it
WarnsLate(n, start, bound) == n - start > bound

\* line 138: the condition of the WARNING
Warns(n, start, bound) == n + start - 1 > bound

\* a loop that stops at the target only
LoopToTarget(done, target, edition, start, bound) == done < target

\* line 153: the condition of the outer loop
LoopCondition(done, target, edition, start, bound) ==
    done < target /\ (edition - start) < bound

\* a uniqueness test that never finds the hash
SeenNever(hash, seen) == FALSE

\* line 232: combo_hash in seen_hashes
Seen(hash, seen) == hash \in seen

\* lines 126-150: scan the assets, compute the bound, warn, initialise the loop
Start ==
    /\ pc = "start"
    /\ \E fsorder \in Orderings(Listed(Range(layers_order) \cup {"masks"}, disk)) :
          assets_map' = gather_assets(disk, layers_order,
                                      Listing(Range(layers_order) \cup {"masks"}, disk, fsorder))
    /\ max_possible' = compute_max_combinations(assets_map', layers_order)
    /\ warned' = Warns(num, start_id, max_possible')
    /\ seen_hashes' = {}
    /\ metadata_list' = <<>>
    /\ generated' = 0
    /\ i' = start_id
    /\ pc' = "while"
    /\ UNCHANGED <<config, run, attempts, made, selected, images, canvas, combo_hash, stopped,
                   files, index, clock, mt, trace, prev>>

\* line 153, true: begin the attempts for edition i
NextEdition ==
    /\ pc = "while"
    /\ LoopCondition(generated, num, i, start_id, max_possible)
    /\ attempts' = 0
    /\ made' = FALSE
    /\ pc' = "attempt"
    /\ UNCHANGED <<config, run, assets_map, max_possible, warned, seen_hashes,
                   metadata_list, generated, i, selected, images, canvas, combo_hash, stopped,
                   files, index, clock, mt, trace, prev>>

\* line 153, false: leave the loop
LoopExit ==
    /\ pc = "while"
    /\ ~LoopCondition(generated, num, i, start_id, max_possible)
    /\ pc' = "write_index"
    /\ UNCHANGED <<config, run, assets_map, max_possible, warned, seen_hashes,
                   metadata_list, generated, i, attempts, made, selected, images, canvas,
                   combo_hash, stopped, files, index, clock, mt, trace, prev>>

\* lines 159-231: the attempt numbered attempts + 1 of edition i, drawn from the
\* generator random.Random((seed or 0) ^ i ^ attempts) whose entropy is r
Draw(r) ==
    /\ pc = "attempt"
    /\ attempts < max_attempts_per_item
    /\ attempts' = attempts + 1
    /\ LET key == AttemptKey(seed, i, attempts')
       IN  /\ key \in DOMAIN mt => r = mt[key]
           /\ mt' = (key :> r) @@ mt
    /\ LET a == Attempt(layers_order, assets_map, palette, r)
       IN  /\ selected' = a.selected
           /\ images' = a.images
           /\ canvas' = a.canvas
           /\ combo_hash' = a.combo_hash

TraceEntry(accepted) ==
    [edition |-> i, attempt |-> attempts', key |-> AttemptKey(seed, i, attempts'),
     selected |-> selected', combo_hash |-> combo_hash', accepted |-> accepted]

\* an attempt that saves its image before the uniqueness test
CollisionSavesImage ==
    /\ \E r \in Entropies(layers_order, assets_map, palette) : Draw(r)
    /\ Seen(combo_hash', seen_hashes)
    /\ trace' = Append(trace, TraceEntry(FALSE))
    /\ files' = (FileName(i, ".png") :> canvas') @@ files
    /\ UNCHANGED <<config, pc, run, assets_map, max_possible, warned, seen_hashes,
                   metadata_list, generated, i, made, stopped, index, clock, prev>>

\* lines 232-234: the hash was seen before; try again
Collision ==
    /\ \E r \in Entropies(layers_order, assets_map, palette) : Draw(r)
    /\ Seen(combo_hash', seen_hashes)
    /\ trace' = Append(trace, TraceEntry(FALSE))
    /\ UNCHANGED <<config, pc, run, assets_map, max_possible, warned, seen_hashes,
                   metadata_list, generated, i, made, stopped, files, index, clock, prev>>

\* lines 235-270: a new hash; save the image and the metadata, go to the next edition
Accept ==
    /\ \E r \in Entropies(layers_order, assets_map, palette) : Draw(r)
    /\ ~Seen(combo_hash', seen_hashes)
    /\ seen_hashes' = seen_hashes \cup {combo_hash'}
    /\ clock' = clock + 1
    /\ LET metadata == Metadata(i, selected', combo_hash', clock')
       IN  /\ files' = (FileName(i, ".json") :> metadata)
                       @@ (FileName(i, ".png") :> canvas') @@ files
           /\ metadata_list' = Append(metadata_list, metadata)
    /\ generated' = generated + 1
    /\ i' = i + 1
    /\ made' = TRUE
    /\ trace' = Append(trace, TraceEntry(TRUE))
    /\ pc' = "while"
    /\ UNCHANGED <<config, run, assets_map, max_possible, warned, stopped, index, prev>>

\* giving up on one edition only: skip it and go on with the next
GiveUpSkipsEdition ==
    /\ pc = "attempt"
    /\ ~(attempts < max_attempts_per_item)
    /\ ~made
    /\ stopped' = TRUE
    /\ i' = i + 1
    /\ pc' = "while"
    /\ UNCHANGED <<config, run, assets_map, max_possible, warned, seen_hashes,
                   metadata_list, generated, attempts, made, selected, images, canvas,
                   combo_hash, files, index, clock, mt, trace, prev>>

\* lines 158 (false) and 272-275: the attempts are used up and nothing was made
GiveUp ==
    /\ pc = "attempt"
    /\ ~(attempts < max_attempts_per_item)
    /\ ~made
    /\ stopped' = TRUE
    /\ pc' = "write_index"
    /\ UNCHANGED <<config, run, assets_map, max_possible, warned, seen_hashes,
                   metadata_list, generated, i, attempts, made, selected, images, canvas,
                   combo_hash, files, index, clock, mt, trace, prev>>

\* lines 277-283: write metadata_index.json
WriteIndex ==
    /\ pc = "write_index"
    /\ index' = Append(index, metadata_list)
    /\ pc' = "done"
    /\ UNCHANGED <<config, run, assets_map, max_possible, warned, seen_hashes,
                   metadata_list, generated, i, attempts, made, selected, images, canvas,
                   combo_hash, stopped, files, clock, mt, trace, prev>>

\* the tool is run again with the same seed, assets and configuration
Rerun ==
    /\ pc = "done"
    /\ run = 1
    /\ run' = 2
    /\ prev' = [trace |-> trace, metadata_list |-> metadata_list]
    /\ clock' = clock + 1
    /\ pc' = "start"
    /\ assets_map' = <<>>
    /\ max_possible' = 0
    /\ warned' = FALSE
    /\ seen_hashes' = {}
    /\ metadata_list' = <<>>
    /\ generated' = 0
    /\ i' = 0
    /\ attempts' = 0
    /\ made' = FALSE
    /\ selected' = <<>>
    /\ images' = <<>>
    /\ canvas' = <<>>
    /\ combo_hash' = <<>>
    /\ stopped' = FALSE
    /\ files' = <<>>
    /\ index' = <<>>
    /\ trace' = <<>>
    /\ UNCHANGED <<config, mt>>

Next ==
    \/ Start
    \/ NextEdition
    \/ LoopExit
    \/ Collision
    \/ Accept
    \/ GiveUp
    \/ WriteIndex
    \/ Rerun

Spec == Init /\ [][Next]_vars

\* ------------------------------------------------------------- properties
IsImage(e) == Lower(e[2]) \in {".png", ".webp"}

\* the image files in the folder of a layer
ImageCount(f) == IF disk[f].is_dir THEN Cardinality({e \in disk[f].entries : IsImage(e)}) ELSE 0

\* the product over the configured layers of max(1, asset count)
TheoreticalMax == Product([j \in 1..Len(layers_order) |-> Max(1, ImageCount(layers_order[j]))])

Started == pc # "start"

Rejected == {j \in 1..Len(trace) : ~trace[j].accepted}

\* the pairs of a metadata record's attributes list
Pairs(attributes) == [j \in 1..Len(attributes) |-> <<attributes[j].trait_type, attributes[j].value>>]

\* C1: no two accepted items (records of the collection index) carry the same
\* combination hash, and the hash of each is the digest of its whole Selection:
\* the chosen layer files, the mask file if any, and the colour.
C1_Uniqueness ==
    /\ \A j, k \in 1..Len(metadata_list) :
          j # k => metadata_list[j].hash # metadata_list[k].hash
    /\ \A j \in 1..Len(metadata_list) :
          /\ metadata_list[j].hash = sha256(combo_str(Pairs(metadata_list[j].attributes)))
          /\ metadata_list[j].hash \in seen_hashes

\* two items were accepted after a draw that repeated an earlier hash was rejected
C1_Witness ==
    /\ Len(metadata_list) >= 2
    /\ Rejected # {}

\* C10: the number of accepted items is at most min(num, max_possible), where
\* max_possible counts the configured layers only, whatever start_id is and
\* however many more hashes the masks and colours would allow.
C10_LayerBound ==
    Started =>
        /\ max_possible = TheoreticalMax
        /\ generated = Len(metadata_list)
        /\ Len(metadata_list) <= Min(num, TheoreticalMax)

\* a run with start_id > 1 that ended at max_possible items, short of num,
\* although another mask or colour would have given a new hash
C10_Witness ==
    /\ pc = "done"
    /\ start_id > 1
    /\ generated = TheoreticalMax
    /\ generated < num
    /\ ~stopped
    /\ \E r \in Entropies(layers_order, assets_map, palette) :
          Attempt(layers_order, assets_map, palette, r).combo_hash \notin seen_hashes

\* C3: when num exceeds the theoretical maximum, the run warns and generates
\* at most max_possible - (start_id - 1) items.
C3_StartOffsetBound ==
    (pc = "done" /\ num > TheoreticalMax) =>
        /\ warned
        /\ generated <= TheoreticalMax - (start_id - 1)

\* ------------------------------------------------------------- two runs
IsPrefix(s, t) == Len(s) <= Len(t) /\ s = SubSeq(t, 1, Len(s))

\* a metadata record without its generation timestamp
WithoutTime(m) == [f \in DOMAIN m \ {"generated_at"} |-> m[f]]

Timeless(list) == [j \in 1..Len(list) |-> WithoutTime(list[j])]

Hashes(list) == [j \in 1..Len(list) |-> list[j].hash]

AttemptsOf(e) == SelectSeq(trace, LAMBDA t : t.edition = e)

\* C4: once every attempt for edition i has repeated a seen hash, the run only
\* writes the index: the last attempt made is the last of that edition, no
\* later edition was tried, no file exists for edition i or a later one, and
\* the index, once written, holds exactly the items accepted before the stop.
C4_CapIsTerminal ==
    stopped =>
        /\ pc \in {"write_index", "done"}
        /\ Len(AttemptsOf(i)) = max_attempts_per_item
        /\ \A j \in 1..Len(AttemptsOf(i)) :
              ~AttemptsOf(i)[j].accepted /\ AttemptsOf(i)[j].attempt = j
        /\ trace[Len(trace)].edition = i
        /\ \A j \in 1..Len(trace) : trace[j].edition <= i
        /\ \A e \in i..(start_id + num) :
              FileName(e, ".png") \notin DOMAIN files /\ FileName(e, ".json") \notin DOMAIN files
        /\ \A j \in 1..Len(metadata_list) : metadata_list[j].edition < i
        /\ Len(metadata_list) = i - start_id
        /\ pc = "write_index" => index = <<>>
        /\ pc = "done" => index = <<metadata_list>>

\* a run that accepted an item, gave up on a later edition with items still
\* wanted, and wrote its index
C4_Witness ==
    /\ stopped
    /\ pc = "done"
    /\ Len(metadata_list) >= 1
    /\ generated < num
    /\ (i - start_id) < max_possible

\* ------------------------------------------------------------- exhaustion
\* the number of Selections the catalog and the palette allow (with no palette
\* the colour is any of 256^3)
SelectionSpace ==
    TheoreticalMax * Max(1, ImageCount("masks"))
                   * (IF palette = <<>> THEN 256 * 256 * 256 ELSE Len(palette))

\* every Selection the catalog and a palette allow has been accepted
EveryCombinationAccepted ==
    /\ Started
    /\ palette # <<>>
    /\ \A r \in 0..(SelectionSpace - 1) :
          Attempt(layers_order, assets_map, palette, r).combo_hash \in seen_hashes

\* C5 as stated: when num exceeds the theoretical maximum the run warns, and
\* once every distinct combination has been accepted it ends through the
\* attempt cap, an edition failing all its attempts.
C5_EndsThroughCap ==
    (pc = "done" /\ num > TheoreticalMax /\ EveryCombinationAccepted) =>
        /\ warned
        /\ stopped

\* C5, amended: when num exceeds the theoretical maximum the warning is printed
\* before the first attempt, and the run ends either through the loop bound,
\* with exactly max_possible items accepted and no failed edition, or before
\* that through the attempt cap, with fewer.
C5_EndsThroughBoundOrCap ==
    (Started /\ num > TheoreticalMax) =>
        /\ warned
        /\ pc \in {"write_index", "done"} =>
              \/ ~stopped /\ generated = TheoreticalMax
              \/ stopped /\ generated < TheoreticalMax

\* a run asked for more than is possible that accepted every combination and
\* ended through the loop bound, no edition having failed
C5_Witness ==
    /\ pc = "done"
    /\ num > TheoreticalMax
    /\ TheoreticalMax >= 2
    /\ warned
    /\ EveryCombinationAccepted
    /\ ~stopped
    /\ generated = TheoreticalMax

\* ------------------------------------------------------------- numbering
RECURSIVE DecimalValue(_)
DecimalValue(digits) ==
    IF digits = <<>> THEN 0
    ELSE 10 * DecimalValue(SubSeq(digits, 1, Len(digits) - 1)) + HexValue(digits[Len(digits)])

\* name is "nft_", six decimal digits that read as edition e, and the suffix
NamesEdition(name, e, suffix) ==
    /\ Len(name) = 8
    /\ name[1] = "nft_"
    /\ DecimalValue(SubSeq(name, 2, 7)) = e
    /\ name[8] = suffix

\* C6: the k accepted items carry the editions start_id .. start_id + k - 1 in
\* order; the files written are, for each, one image and one metadata file
\* named by the six-digit zero-padded edition; metadata_index.json is written
\* once, at the end, and lists exactly those k records in edition order.
C6_Editions ==
    Started =>
        /\ \A j \in 1..Len(metadata_list) :
              /\ metadata_list[j].edition = start_id + j - 1
              /\ metadata_list[j].name = <<"Pixel Cat #">> \o Decimal(start_id + j - 1)
              /\ LET png == metadata_list[j].image
                     json == [png EXCEPT ![Len(png)] = ".json"]
                 IN  /\ png \in DOMAIN files
                     /\ json \in DOMAIN files
                     /\ NamesEdition(png, start_id + j - 1, ".png")
                     /\ NamesEdition(json, start_id + j - 1, ".json")
                     /\ files[json] = metadata_list[j]
        /\ Cardinality(DOMAIN files) = 2 * Len(metadata_list)
        /\ i = start_id + Len(metadata_list)
        /\ Len(index) = IF pc = "done" THEN 1 ELSE 0
        /\ pc = "done" => index[1] = metadata_list

\* a finished run with start_id > 1 that accepted at least two items
C6_Witness ==
    /\ pc = "done"
    /\ start_id > 1
    /\ Len(metadata_list) >= 2
    /\ Len(index) = 1

\* ------------------------------------------------------------- empty layers
TraitTypes(m) == {m.attributes[j].trait_type : j \in 1..Len(m.attributes)}

NonEmptyLayers == SelectSeq(layers_order, LAMBDA layer : ImageCount(layer) > 0)

\* layer is no key of a Selection made so far and no trait_type of an accepted item
Absent(layer) ==
    /\ \A j \in 1..Len(trace) : layer \notin DictKeys(trace[j].selected)
    /\ \A j \in 1..Len(metadata_list) : layer \notin TraitTypes(metadata_list[j])

\* C7: a configured layer whose folder is empty or missing is never a key of a
\* Selection nor a trait_type of an accepted item, and counts as a factor 1 in
\* compute_max_combinations, which is the product of the counts of the
\* configured layers that have assets.
C7_EmptyLayerAbsent ==
    Started =>
        /\ \A layer \in Range(layers_order) : ImageCount(layer) = 0 => Absent(layer)
        /\ max_possible = Product([j \in 1..Len(NonEmptyLayers) |-> ImageCount(NonEmptyLayers[j])])

\* what does hold of C7: the same for every layer not named like the key the
\* colour is stored under
C7_ExceptColorKey ==
    Started =>
        /\ \A layer \in Range(layers_order) \ {"color"} : ImageCount(layer) = 0 => Absent(layer)
        /\ max_possible = Product([j \in 1..Len(NonEmptyLayers) |-> ImageCount(NonEmptyLayers[j])])

\* ------------------------------------------------------------- discarded attempts
\* C8: an attempt whose hash is already seen changes neither seen_hashes, the
\* collection index, generated, the edition number nor the files written, and
\* leaves the run at the attempts of the same edition; the attempt after a
\* discarded one is for the same edition with the attempt number one higher,
\* and no attempt number exceeds max_attempts_per_item.
C8_DiscardHasNoEffect ==
    /\ [][(pc = "attempt" /\ attempts' = attempts + 1 /\ combo_hash' \in seen_hashes) =>
             /\ UNCHANGED <<seen_hashes, metadata_list, generated, i, files, index, made>>
             /\ pc' = "attempt"
             /\ attempts' <= max_attempts_per_item]_vars
    /\ [](\A j \in Rejected :
             /\ trace[j].attempt <= max_attempts_per_item
             /\ j < Len(trace) =>
                   /\ trace[j + 1].edition = trace[j].edition
                   /\ trace[j + 1].attempt = trace[j].attempt + 1
             /\ (j = Len(trace) /\ pc = "attempt") =>
                   i = trace[j].edition /\ attempts = trace[j].attempt)

\* an attempt was discarded after an item had been written, and the next
\* attempt for the same edition was accepted
C8_Witness ==
    \E j \in Rejected :
        /\ j > 1
        /\ j < Len(trace)
        /\ trace[j + 1].accepted
        /\ trace[j + 1].attempt = 2

\* ------------------------------------------------------------- compositing
\* the first place of "cat" in layers_order, 0 if it has none
CatPlace ==
    IF "cat" \in Range(layers_order)
    THEN CHOOSE p \in 1..Len(layers_order) :
            layers_order[p] = "cat" /\ \A q \in 1..(p - 1) : layers_order[q] # "cat"
    ELSE 0

\* the places of layers_order whose image goes into the overlay pass
OverlayPlaces ==
    SelectSeq([p \in 1..Len(layers_order) |-> p],
              LAMBDA p : /\ CatPlace > 0
                         /\ p > CatPlace
                         /\ layers_order[p] \notin {"backgrounds", "base", "cat"}
                         /\ layers_order[p] \in DOMAIN images)

CatLayers == IF "cat" \in DOMAIN images THEN 1 ELSE 0

\* C9: the canvas is the selected backgrounds image (a transparent canvas if
\* none), then the colourised mask, then the cat image if one was selected,
\* then the selected layers at the places strictly after "cat" in layers_order
\* that are neither backgrounds nor base, in configured order, and nothing
\* else: no layer standing at or before "cat", none at all without "cat".
C9_CompositingOrder ==
    canvas # <<>> =>
        /\ Len(canvas) = 2 + CatLayers + Len(OverlayPlaces)
        /\ canvas[1].layer = IF "backgrounds" \in DOMAIN images THEN "backgrounds" ELSE "transparent"
        /\ "backgrounds" \in DOMAIN images => canvas[1].img = images["backgrounds"]
        /\ canvas[2].layer = "color_layer"
        /\ canvas[2].rgb = rgb_from_hex(DictGet(selected, "color"))
        /\ CatLayers = 1 => canvas[3].layer = "cat" /\ canvas[3].img = images["cat"]
        /\ \A k \in 1..Len(OverlayPlaces) :
              /\ canvas[2 + CatLayers + k].layer = layers_order[OverlayPlaces[k]]
              /\ canvas[2 + CatLayers + k].img = images[layers_order[OverlayPlaces[k]]]
        /\ CatPlace = 0 => Len(canvas) = 2

\* an item whose order has a selected layer before "cat" that is left out and
\* a selected layer after "cat" that is composited on top
C9_Witness ==
    /\ canvas # <<>>
    /\ CatPlace > 1
    /\ layers_order[1] \in DOMAIN images
    /\ layers_order[1] \notin {"backgrounds", "base", "cat"}
    /\ \A k \in 1..Len(canvas) : canvas[k].layer # layers_order[1]
    /\ Len(OverlayPlaces) >= 1
    /\ \E png \in DOMAIN files : files[png] = canvas

=============================================================================
